---- MODULE Spec2Model ----
(***************************************************************************)
(* PatternSeeker (src/PatternSeeker.hpp): a cursor over a caller-owned     *)
(* character buffer.  The cursor holds a std::string_view m_str (a pointer *)
(* and a size_t length) and the pointer m_originalPointer.                 *)
(*                                                                         *)
(* Memory layout of the model: the root buffer occupies the addresses      *)
(* 0 .. Len(buf)-1 and is followed by its terminating NUL at Len(buf) (the *)
(* buffers of the tests are string literals and std::string objects); the  *)
(* static literal EMPTY_STR is one NUL byte at the address EMPTY_STR, far  *)
(* from the buffer.                                                        *)
(* Characters are one-character strings; "NUL" and "VT" stand for '\0'     *)
(* and '\v'.  Positions inside a view are 0-based, as in the source.       *)
(*                                                                         *)
(* size_t values are kept as their two's-complement representative: a      *)
(* value v >= 2^63 is held as v - 2^64, so npos (SIZE_MAX) is -1 and the   *)
(* length left by remove_prefix(n) with n > size() is the negative number  *)
(* size() - n.  Integers converted by strtoull / strtoll are kept as       *)
(* decimal digit strings, compared digit by digit with the 64-bit limits.  *)
(***************************************************************************)
EXTENDS Integers, Sequences, FiniteSets, TLC

VARIABLES buf, cur, res, last, status, calls

vars == <<buf, cur, res, last, status, calls>>

----------------------------------------------------------------------------
(* Bounds of the model *)

\* skip(n) and extract(n, mode) are called with n in 0 .. MaxCount
MaxCount == 2
\* every buffer over Alphabet of length at most MaxLen is a root buffer
MaxLen == 2
\* a behaviour makes at most MaxCalls method calls
MaxCalls == 2

----------------------------------------------------------------------------
(* Characters and buffers *)

DOUBLE_QUOTE == <<"\"">>

EMPTY_STR == -1000

NUL == "NUL"

IsSpace == {" ", "\t", "\n", "VT", "\f", "\r"}

DigitVal == [d \in {"0","1","2","3","4","5","6","7","8","9"} |->
               CASE d = "0" -> 0 [] d = "1" -> 1 [] d = "2" -> 2 [] d = "3" -> 3
                 [] d = "4" -> 4 [] d = "5" -> 5 [] d = "6" -> 6 [] d = "7" -> 7
                 [] d = "8" -> 8 [] d = "9" -> 9]

IsDigit == DOMAIN DigitVal

ULLONG_MAX == <<"1","8","4","4","6","7","4","4","0","7","3","7","0","9","5","5","1","6","1","5">>

LLONG_MAX == <<"9","2","2","3","3","7","2","0","3","6","8","5","4","7","7","5","8","0","7">>

LLONG_MIN_MAG == <<"9","2","2","3","3","7","2","0","3","6","8","5","4","7","7","5","8","0","8">>

Min(S) == CHOOSE x \in S : \A y \in S : x <= y

Max(S) == CHOOSE x \in S : \A y \in S : x >= y

\* the byte at address a
Mem(a) == IF a >= 0 /\ a < Len(buf) THEN buf[a + 1] ELSE NUL

----------------------------------------------------------------------------
(* std::string_view, as far as the class uses it.  A view is a record with *)
(* data and size; the cursor adds orig (m_originalPointer).                *)

npos == -1

\* the characters of the view
Text(c) == [i \in 1 .. c.size |-> Mem(c.data + i - 1)]

\* unsigned comparison a < b of two size_t values
ULess(a, b) == IF (a < 0) = (b < 0) THEN a < b ELSE b < 0

UMin(a, b) == IF ULess(a, b) THEN a ELSE b

starts_with(s, lit) == Len(s) >= Len(lit) /\ SubSeq(s, 1, Len(lit)) = lit

find(s, lit, pos) ==
    LET hits == {i \in pos .. (Len(s) - Len(lit)) :
                    \A k \in 1 .. Len(lit) : s[i + k] = lit[k]}
    IN IF hits = {} THEN npos ELSE Min(hits)

rfind(s, lit) ==
    LET hits == {i \in 0 .. (Len(s) - Len(lit)) :
                    \A k \in 1 .. Len(lit) : s[i + k] = lit[k]}
    IN IF hits = {} THEN npos ELSE Max(hits)

find_first_of(s, chars) ==
    LET hits == {i \in 0 .. (Len(s) - 1) : \E k \in 1 .. Len(chars) : s[i + 1] = chars[k]}
    IN IF hits = {} THEN npos ELSE Min(hits)

\* remove_prefix(n): the pointer moves on by n, the length shrinks by n.
\* With n > size() the call is undefined; RemovePrefixUB says so.
remove_prefix(c, n) == [c EXCEPT !.data = @ + n, !.size = @ - n]

RemovePrefixUB(c, n) == ULess(c.size, n)

\* m_str.substr(pos, count) with pos <= size(): the view of
\* min(count, size() - pos) characters from pos
substr(c, pos, count) == [data |-> c.data + pos, size |-> UMin(count, c.size - pos)]

----------------------------------------------------------------------------
(* Construction *)

\* PatternSeeker(std::string_view str, const char* originalPointer)
Derived(v, originalPointer) == [data |-> v.data, size |-> v.size, orig |-> originalPointer]

\* PatternSeeker(): the cursor a failed call returns
Sentinel == [data |-> EMPTY_STR, size |-> 0, orig |-> EMPTY_STR]

\* PatternSeeker(std::string_view str): a cursor that is its own origin
Root(v) == [data |-> v.data, size |-> v.size, orig |-> v.data]

size(c) == c.size

isEmpty(c) == size(c) = 0

getOriginalPosition(c) == c.data - c.orig

getOffset(c) == c.data - c.orig

\* what a method hands back: the receiver after the call, the returned
\* cursor, the returned bool, the returned optional, whether the call came
\* back by a `return {}` / `return false` path (ok = FALSE), and whether it
\* called remove_prefix beyond the view (ub)
NoValue == [has |-> FALSE, neg |-> FALSE, digits |-> <<>>]

Result(self, out, ok, val, ub) ==
    [self |-> self, out |-> out, ok |-> ok, val |-> val, ub |-> ub]

----------------------------------------------------------------------------
(* Positioning *)

\* expect that looks for the literal anywhere in the view
expect_Anywhere(c, expected) ==
    IF find(Text(c), expected, 0) # npos
    THEN Result(remove_prefix(c, Len(expected)), Sentinel, TRUE, NoValue, FALSE)
    ELSE Result(c, Sentinel, FALSE, NoValue, FALSE)

\* bool expect(std::string_view expected)
expect(c, expected) ==
    IF starts_with(Text(c), expected)
    THEN Result(remove_prefix(c, Len(expected)), Sentinel, TRUE, NoValue, FALSE)
    ELSE Result(c, Sentinel, FALSE, NoValue, FALSE)

\* bool startsWith(std::string_view expected) const
startsWith(c, expected) ==
    Result(c, Sentinel, starts_with(Text(c), expected), NoValue, FALSE)

\* to that forgets the length of the literal in move_after
to_StopsAtMatch(c, expected, mode) ==
    LET pos == find(Text(c), expected, 0)
    IN IF pos = npos
       THEN Result(c, Sentinel, FALSE, NoValue, FALSE)
       ELSE Result(IF mode = "none" THEN c ELSE remove_prefix(c, pos), Sentinel, TRUE,
                   NoValue, FALSE)

\* bool to(std::string_view expected, MoveMode mode)
to(c, expected, mode) ==
    LET pos == find(Text(c), expected, 0)
    IN IF pos = npos
       THEN Result(c, Sentinel, FALSE, NoValue, FALSE)
       ELSE LET self == CASE mode = "move_before" -> remove_prefix(c, pos)
                          [] mode = "move_after" -> remove_prefix(c, pos + Len(expected))
                          [] mode = "none" -> c
            IN Result(self, Sentinel, TRUE, NoValue, FALSE)

----------------------------------------------------------------------------
(* Extraction *)

Fail(c) == Result(c, Sentinel, FALSE, NoValue, FALSE)

\* extractFromTo that moves the receiver to the first delimiter before it
\* looks for the second
extractFromTo_MovesFirst(c, from, until, mode) ==
    LET found == find(Text(c), from, 0)
        startIt == found + Len(from)
        endIt == find(Text(c), until, startIt)
        moved == IF mode = "none" THEN c ELSE remove_prefix(c, found)
    IN IF found = npos THEN Fail(c)
       ELSE IF endIt = npos THEN Result(moved, Sentinel, FALSE, NoValue, FALSE)
       ELSE Result(IF mode = "move_after" THEN remove_prefix(c, endIt + Len(until)) ELSE moved,
                   Derived(substr(c, startIt, endIt - startIt), c.orig), TRUE, NoValue, FALSE)

\* extractFromTo that looks for the second delimiter from the start of the
\* view
extractFromTo_FromStart(c, from, until, mode) ==
    LET found == find(Text(c), from, 0)
        startIt == found + Len(from)
        endIt == find(Text(c), until, 0)
    IN IF found = npos THEN Fail(c)
       ELSE IF endIt = npos THEN Fail(c)
       ELSE LET sub == substr(c, startIt, endIt - startIt)
                self == CASE mode = "move_before" -> remove_prefix(c, startIt - Len(from))
                          [] mode = "move_after" -> remove_prefix(c, endIt + Len(until))
                          [] mode = "none" -> c
            IN Result(self, Derived(sub, c.orig), TRUE, NoValue, FALSE)

\* PatternSeeker extract(std::string_view from, std::string_view to, MoveMode mode)
extractFromTo(c, from, until, mode) ==
    LET found == find(Text(c), from, 0)
        startIt == found + Len(from)
        endIt == find(Text(c), until, startIt)
    IN IF found = npos THEN Fail(c)
       ELSE IF endIt = npos THEN Fail(c)
       ELSE LET sub == substr(c, startIt, endIt - startIt)
                self == CASE mode = "move_before" -> remove_prefix(c, startIt - Len(from))
                          [] mode = "move_after" -> remove_prefix(c, endIt + Len(until))
                          [] mode = "none" -> c
            IN Result(self, Derived(sub, c.orig), TRUE, NoValue, FALSE)

\* PatternSeeker extract(std::string_view to, MoveMode mode)
extractTo(c, until, mode) ==
    LET endIt == find(Text(c), until, 0)
    IN IF endIt = npos THEN Fail(c)
       ELSE LET sub == substr(c, 0, endIt)
                self == CASE mode = "move_before" -> remove_prefix(c, endIt)
                          [] mode = "move_after" -> remove_prefix(c, endIt + Len(until))
                          [] mode = "none" -> c
            IN Result(self, Derived(sub, c.orig), TRUE, NoValue, FALSE)

\* PatternSeeker extractUntilOneOf(std::string_view to, MoveMode mode)
extractUntilOneOf(c, chars, mode) ==
    LET endIt == find_first_of(Text(c), chars)
    IN IF endIt = npos THEN Fail(c)
       ELSE LET sub == substr(c, 0, endIt)
                self == IF mode = "move_after" THEN remove_prefix(c, endIt + 1) ELSE c
            IN Result(self, Derived(sub, c.orig), TRUE, NoValue, FALSE)

\* the while loop of extract(char, char, MoveMode): from index i with the
\* given depth to the index and depth it ends with
RECURSIVE ScanDepth(_, _, _, _, _)
ScanDepth(s, i, depth, start, end) ==
    IF ULess(i, Len(s))
    THEN LET ch == s[i + 1]
         IN IF ch = start THEN ScanDepth(s, i + 1, depth + 1, start, end)
            ELSE IF ch = end
                 THEN IF depth - 1 = 0 THEN [i |-> i + 1, depth |-> 0]
                      ELSE ScanDepth(s, i + 1, depth - 1, start, end)
            ELSE ScanDepth(s, i + 1, depth, start, end)
    ELSE [i |-> i, depth |-> depth]

\* extractBalanced that stops at the first closing character
extractBalanced_FirstClose(c, start, end, mode) ==
    LET startIndex == find(Text(c), <<start>>, 0)
        stop == find(Text(c), <<end>>, startIndex + 1)
    IN IF startIndex = npos THEN Fail(c)
       ELSE IF stop = npos THEN Fail(c)
       ELSE LET sub == substr(c, startIndex, stop + 1 - startIndex)
                self == CASE mode = "move_before" -> remove_prefix(c, startIndex)
                          [] mode = "move_after" -> remove_prefix(c, stop + 1)
                          [] mode = "none" -> c
            IN Result(self, Derived(sub, c.orig), TRUE, NoValue, FALSE)

\* PatternSeeker extract(char start, char end, MoveMode mode)
extractBalanced(c, start, end, mode) ==
    LET startIndex == find(Text(c), <<start>>, 0)
        scan == ScanDepth(Text(c), startIndex + 1, 1, start, end)
    IN IF startIndex = npos THEN Fail(c)
       ELSE IF scan.depth # 0 THEN Fail(c)
       ELSE LET sub == substr(c, startIndex, scan.i - startIndex)
                self == CASE mode = "move_before" -> remove_prefix(c, startIndex)
                          [] mode = "move_after" -> remove_prefix(c, scan.i)
                          [] mode = "none" -> c
            IN Result(self, Derived(sub, c.orig), TRUE, NoValue, FALSE)

\* PatternSeeker extract(size_t size, MoveMode mode)
extractSize(c, n, mode) ==
    LET sub == substr(c, 0, n)
    IN IF mode = "move_after"
       THEN Result(remove_prefix(c, n), Derived(sub, c.orig), TRUE, NoValue,
                   RemovePrefixUB(c, n))
       ELSE Result(c, Derived(sub, c.orig), TRUE, NoValue, FALSE)

\* void skip(size_t n)
skip(c, n) == Result(remove_prefix(c, n), Sentinel, TRUE, NoValue, RemovePrefixUB(c, n))

----------------------------------------------------------------------------
(* Scalar parsing and whitespace *)

\* how many consecutive bytes from address a belong to the set S; the scan
\* reads memory, not the view, and stops at the NUL behind the buffer
RECURSIVE Span(_, _)
Span(a, S) == IF Mem(a) \in S THEN 1 + Span(a + 1, S) ELSE 0

RECURSIVE StripZeros(_)
StripZeros(d) ==
    IF Len(d) > 1 /\ d[1] = "0" THEN StripZeros(Tail(d)) ELSE d

\* a < b for two decimal numbers without leading zeros
RECURSIVE DecLess(_, _)
DecLess(a, b) ==
    IF Len(a) # Len(b) THEN Len(a) < Len(b)
    ELSE IF Len(a) = 0 THEN FALSE
    ELSE IF a[1] # b[1] THEN DigitVal[a[1]] < DigitVal[b[1]]
    ELSE DecLess(Tail(a), Tail(b))

\* the subject sequence strtoull / strtoll see at address a in base 10:
\* white space, an optional sign, decimal digits
Subject(a) ==
    LET p1 == a + Span(a, IsSpace)
        p2 == IF Mem(p1) \in {"+", "-"} THEN p1 + 1 ELSE p1
        k == Span(p2, IsDigit)
    IN [neg |-> Mem(p1) = "-", first |-> p2, k |-> k,
        digits |-> StripZeros([i \in 1 .. k |-> Mem(p2 + i - 1)])]

Value(neg, digits) == [has |-> TRUE, neg |-> neg /\ digits # <<"0">>, digits |-> digits]

\* std::strtoull(nptr, &end, 10): the value (a negated one is 2^64 minus the
\* digits), the end pointer and whether errno is ERANGE
strtoull(nptr) ==
    LET s == Subject(nptr)
    IN IF s.k = 0 THEN [val |-> Value(FALSE, <<"0">>), end |-> nptr, erange |-> FALSE]
       ELSE IF DecLess(ULLONG_MAX, s.digits)
            THEN [val |-> Value(FALSE, ULLONG_MAX), end |-> s.first + s.k, erange |-> TRUE]
       ELSE [val |-> Value(s.neg, s.digits), end |-> s.first + s.k, erange |-> FALSE]

\* std::strtoll(nptr, &end, 10)
strtoll(nptr) ==
    LET s == Subject(nptr)
    IN IF s.k = 0 THEN [val |-> Value(FALSE, <<"0">>), end |-> nptr, erange |-> FALSE]
       ELSE IF s.neg /\ DecLess(LLONG_MIN_MAG, s.digits)
            THEN [val |-> Value(TRUE, LLONG_MIN_MAG), end |-> s.first + s.k, erange |-> TRUE]
       ELSE IF ~s.neg /\ DecLess(LLONG_MAX, s.digits)
            THEN [val |-> Value(FALSE, LLONG_MAX), end |-> s.first + s.k, erange |-> TRUE]
       ELSE [val |-> Value(s.neg, s.digits), end |-> s.first + s.k, erange |-> FALSE]

\* the common body of takeUInt64() and takeInt64(), given the conversion
Take(c, conv) ==
    LET isError == conv.erange \/ conv.end = c.data
        n == conv.end - c.data
    IN Result(remove_prefix(c, n), Sentinel, ~isError,
              IF isError THEN NoValue ELSE conv.val, RemovePrefixUB(c, n))

\* std::optional<uint64_t> takeUInt64()
takeUInt64(c) == Take(c, strtoull(c.data))

\* uint64_t takeUInt64(uint64_t def)
takeUInt64Def(c, def) ==
    LET r == takeUInt64(c)
    IN [r EXCEPT !.val = IF ~r.val.has THEN def ELSE r.val]

\* std::optional<int64_t> takeInt64()
takeInt64(c) == Take(c, strtoll(c.data))

\* int64_t takeInt64(int64_t def)
takeInt64Def(c, def) ==
    LET r == takeInt64(c)
    IN [r EXCEPT !.val = IF ~r.val.has THEN def ELSE r.val]

\* void skipWhiteSpaces(): the receiver after the loop
RECURSIVE SkipLoop(_)
SkipLoop(c) ==
    IF c.size # 0 /\ Mem(c.data) \in IsSpace THEN SkipLoop(remove_prefix(c, 1)) ELSE c

skipWhiteSpaces(c) == Result(SkipLoop(c), Sentinel, TRUE, NoValue, FALSE)

----------------------------------------------------------------------------
(* Structured-text helpers *)

\* getJsonProp that skips no white space behind the colon
getJsonProp_NoSpaceSkip(c, prop) ==
    LET r1 == to(c, DOUBLE_QUOTE \o prop \o DOUBLE_QUOTE, "move_after")
        c2 == skipWhiteSpaces(r1.self).self
        r3 == expect(c2, <<":">>)
        c4 == r3.self
        r5 == expect(c4, DOUBLE_QUOTE)
        r6 == IF r5.ok THEN extractTo(r5.self, DOUBLE_QUOTE, "none")
              ELSE IF startsWith(c4, <<"[">>).ok THEN extractBalanced(c4, "[", "]", "none")
              ELSE IF startsWith(c4, <<"{">>).ok THEN extractBalanced(c4, "{", "}", "none")
              ELSE extractUntilOneOf(c4, <<",", " ", "\r", "\n", "]", "}">>, "none")
    IN IF ~r1.ok THEN Fail(c)
       ELSE IF ~r3.ok THEN Fail(c)
       ELSE Result(c, r6.out, r6.ok, NoValue, FALSE)

\* PatternSeeker getJsonProp(std::string prop): everything runs on a copy
getJsonProp(c, prop) ==
    LET r1 == to(c, DOUBLE_QUOTE \o prop \o DOUBLE_QUOTE, "move_after")
        c2 == skipWhiteSpaces(r1.self).self
        r3 == expect(c2, <<":">>)
        c4 == skipWhiteSpaces(r3.self).self
        r5 == expect(c4, DOUBLE_QUOTE)
        r6 == IF r5.ok THEN extractTo(r5.self, DOUBLE_QUOTE, "none")
              ELSE IF startsWith(c4, <<"[">>).ok THEN extractBalanced(c4, "[", "]", "none")
              ELSE IF startsWith(c4, <<"{">>).ok THEN extractBalanced(c4, "{", "}", "none")
              ELSE extractUntilOneOf(c4, <<",", " ", "\r", "\n", "]", "}">>, "none")
    IN IF ~r1.ok THEN Fail(c)
       ELSE IF ~r3.ok THEN Fail(c)
       ELSE Result(c, r6.out, r6.ok, NoValue, FALSE)

\* getXmlTag that takes the last closing tag of the view
getXmlTag_LastClose(c, prop, mode) ==
    LET startTag == <<"<">> \o prop
        startPos == find(Text(c), startTag, 0)
        endTag == <<"<", "/">> \o prop \o <<">">>
        endPos == rfind(Text(c), endTag)
    IN IF startPos = npos THEN Fail(c)
       ELSE IF endPos = npos \/ endPos < startPos + Len(startTag) THEN Fail(c)
       ELSE LET sub == substr(c, startPos, endPos + Len(endTag) - startPos)
                self == CASE mode = "move_before" -> remove_prefix(c, startPos)
                          [] mode = "move_after" -> remove_prefix(c, endPos + Len(endTag))
                          [] OTHER -> c
            IN Result(self, Derived(sub, c.orig), TRUE, NoValue, FALSE)

\* PatternSeeker getXmlTag(std::string prop, MoveMode mode)
getXmlTag(c, prop, mode) ==
    LET startTag == <<"<">> \o prop
        startPos == find(Text(c), startTag, 0)
        endTag == <<"<", "/">> \o prop \o <<">">>
        endPos == find(Text(c), endTag, startPos + Len(startTag))
    IN IF startPos = npos THEN Fail(c)
       ELSE IF endPos = npos THEN Fail(c)
       ELSE LET sub == substr(c, startPos, endPos + Len(endTag) - startPos)
                self == CASE mode = "move_before" -> remove_prefix(c, startPos)
                          [] mode = "move_after" -> remove_prefix(c, endPos + Len(endTag))
                          [] OTHER -> c
            IN Result(self, Derived(sub, c.orig), TRUE, NoValue, FALSE)

\* PatternSeeker getXmlTagBody(std::string prop, MoveMode mode): the body is
\* returned as a std::string_view, which the public constructor converts
getXmlTagBody(c, prop, mode) ==
    LET r == getXmlTag(c, prop, mode)
        startPos == find(Text(r.out), <<">">>, 0) + 1
        endPos == rfind(Text(r.out), <<"<", "/">> \o prop \o <<">">>)
    IN IF isEmpty(r.out) THEN Result(r.self, Sentinel, FALSE, NoValue, FALSE)
       ELSE IF endPos = npos THEN Result(r.self, Sentinel, FALSE, NoValue, FALSE)
       ELSE Result(r.self, Root(substr(r.out, startPos, endPos - startPos)), TRUE,
                   NoValue, FALSE)

\* PatternSeeker getXmlAttr(std::string prop): everything runs on a copy
getXmlAttr(c, prop) ==
    LET r1 == to(c, prop, "move_after")
        c2 == skipWhiteSpaces(r1.self).self
        c3 == expect(c2, <<"=">>).self
        c4 == skipWhiteSpaces(c3).self
        r5 == extractFromTo(c4, DOUBLE_QUOTE, DOUBLE_QUOTE, "none")
    IN IF ~r1.ok THEN Fail(c)
       ELSE Result(c, r5.out, r5.ok, NoValue, FALSE)

----------------------------------------------------------------------------
(* The buffers and the arguments of the calls *)

HelloDoc ==
    <<"H","e","l","l","o",","," ","W","o","r","l","d","!">>

NameDoc ==
    <<"H","e","l","l","o",","," ","<","n","a","m","e",">","W","o","r","l","d","<","/","n","a","m","e",">","!">>

NestDoc ==
    <<"{","\"","a","\"",":"," ","{","\"","b","\"",":"," ","1","}","}">>

UIntDoc ==
    <<"1","2","3","4","5"," ","r","e","m","a","i","n","d","e","r">>

NoNumberDoc ==
    <<"n","o","t","_","a","_","n","u","m","b","e","r">>

IntDoc ==
    <<"-","1","2","3","4","5"," ","r","e","m","a","i","n","d","e","r">>

SpaceDoc ==
    <<" "," "," ","\t","\n"," "," ","H","e","l","l","o">>

JsonDoc ==
    <<"{","\"","n","a","m","e","\"",":"," ","\"","J","o","h","n","\"",","," ","\"","a","g","e","\"",":"," ","3","0",","," ","\"","a","r","r","a","y","\"",":"," ","[","1",",","2",",","3","]",","," ","\"","o","b","j","\"",":"," ","{","\"","n","e","s","t","e","d","\"",":"," ","\"","v","a","l","u","e","\"","}","}">>

XmlDoc ==
    <<"<","r","o","o","t",">","<","n","a","m","e",">","J","o","h","n","<","/","n","a","m","e",">","<","a","g","e",">","3","0","<","/","a","g","e",">","<","/","r","o","o","t",">">>

LitHello == <<"H","e","l","l","o">>

LitWorld == <<"W","o","r","l","d">>

LitGoodbye == <<"G","o","o","d","b","y","e">>

LitComma == <<",">>

LitNameOpen == <<"<","n","a","m","e",">">>

LitNameClose == <<"<","/","n","a","m","e",">">>

\* the largest uint64_t, and the number after it
UMaxDoc == ULLONG_MAX

UOverDoc == SubSeq(ULLONG_MAX, 1, 19) \o <<"6">>

\* a number behind white space, a number behind a sign
PaddedDoc == <<" ", "7", "x">>

SignedDoc == <<"-", "5">>

\* an opening tag without its '>'
BareTagDoc == <<"<", "n", "<", "/", "n", ">">>

\* an opening tag with an attribute, and a second closing tag behind the tag
TwoCloseDoc ==
    <<"<", "n", " ", "a", "=", "\"", "1", "\"", ">", "x", "<", "/", "n", ">", "<", "/", "n", ">">>

\* a value behind white space around the colon, an unterminated string
LooseJsonDoc ==
    <<"{", "\"", "k", "\"", " ", ":", "\t", "[", "1", ",", "[", "2", "]", "]", ",",
      "\"", "s", "\"", ":", "\"", "x", ",", "\"", "k", "\"", "}">>

Docs ==
    {HelloDoc, NameDoc, NestDoc, UIntDoc, NoNumberDoc, IntDoc, SpaceDoc, JsonDoc, XmlDoc,
     UMaxDoc, UOverDoc, PaddedDoc, SignedDoc, BareTagDoc, TwoCloseDoc, LooseJsonDoc}

Alphabet == {"a", "{", "}", "1"}

SmallBuffers == UNION {[1 .. n -> Alphabet] : n \in 0 .. MaxLen}

Buffers == Docs \cup SmallBuffers

Modes == {"none", "move_before", "move_after"}

Chars(s) == {s[i] : i \in 1 .. Len(s)}

\* a call is given literals made of the buffer's own characters, and one
\* literal that is foreign to every buffer
Known(l) == Chars(l) \subseteq Chars(buf) \/ l = LitGoodbye

Lits ==
    {l \in {<<>>, <<"a">>, <<"a", "a">>, <<"{">>, <<"a", "{">>, <<"{", "a">>, <<"1">>,
            LitHello, LitWorld, LitGoodbye, LitComma, LitNameOpen, LitNameClose,
            DOUBLE_QUOTE} : Known(l)}

FromTo ==
    {p \in {<<LitNameOpen, LitNameClose>>, <<<<"a">>, <<"a">>>>, <<<<"a", "{">>, <<"{", "a">>>>,
            <<<<"a", "a">>, <<"a">>>>, <<<<>>, <<"a">>>>, <<<<"a">>, <<>>>>,
            <<<<"{">>, <<"}">>>>, <<DOUBLE_QUOTE, DOUBLE_QUOTE>>,
            <<LitGoodbye, LitComma>>, <<LitComma, LitGoodbye>>} :
        Known(p[1]) /\ Known(p[2])}

CharSets ==
    {s \in {<<",", " ">>, <<"a", "}">>, <<"}", "1">>, <<>>, LitGoodbye} :
        Chars(s) \cap Chars(buf) # {} \/ s \in {<<>>, LitGoodbye}}

Brackets ==
    {p \in {<<"{", "}">>, <<"[", "]">>, <<"a", "a">>, <<"{", "a">>, <<"<", ">">>} :
        p[1] \in Chars(buf) \/ p = <<"[", "]">>}

Props ==
    {l \in {<<"n", "a", "m", "e">>, <<"a", "g", "e">>, <<"a", "r", "r", "a", "y">>,
            <<"o", "b", "j">>, <<"k">>, <<"s">>, <<"n">>, <<"a">>, <<"r", "o", "o", "t">>,
            LitGoodbye} : Known(l)}

Defaults == {Value(FALSE, <<"4", "2">>)}

----------------------------------------------------------------------------
(* The state machine: one cursor cur receives the calls; res is the cursor *)
(* the last call returned (the default-constructed one when it returned a  *)
(* bool, an integer or nothing); last records the call.                    *)

\* the view lies in the root buffer or is the empty view of EMPTY_STR, so
\* the call reads no memory outside them
Readable(c) ==
    \/ c.data = EMPTY_STR /\ c.size = 0
    \/ c.data >= 0 /\ c.size >= 0 /\ c.data + c.size <= Len(buf)

\* last between two calls
Idle(op) ==
    [op |-> op, a |-> <<>>, b |-> <<>>, n |-> 0, mode |-> "none", pre |-> Sentinel,
     ok |-> TRUE, val |-> NoValue]

\* the statement that made the last call is over
Ready == last.op \in {"construct", "adopt", "discard"}

Call(op, a, b, n, mode, r) ==
    /\ status = "ok"
    /\ Ready
    /\ calls < MaxCalls
    /\ Readable(cur)
    /\ calls' = calls + 1
    /\ buf' = buf
    /\ \/ /\ cur' = r.self
          /\ res' = r.out
          /\ status' = "ok"
          /\ last' = [op |-> op, a |-> a, b |-> b, n |-> n, mode |-> mode, pre |-> cur,
                      ok |-> r.ok, val |-> r.val]
       \/ \* remove_prefix beyond the view, in a build that asserts its precondition
          /\ r.ub
          /\ cur' = cur
          /\ res' = Sentinel
          /\ status' = "aborted"
          /\ last' = [op |-> op, a |-> a, b |-> b, n |-> n, mode |-> mode, pre |-> cur,
                      ok |-> FALSE, val |-> NoValue]

Init ==
    /\ buf \in Buffers
    /\ cur = Root([data |-> 0, size |-> Len(buf)])
    /\ res = Sentinel
    /\ status = "ok"
    /\ calls = 0
    /\ last = Idle("construct")

Expect == \E s \in Lits : Call("expect", s, <<>>, 0, "none", expect(cur, s))

StartsWith == \E s \in Lits : Call("startsWith", s, <<>>, 0, "none", startsWith(cur, s))

To == \E s \in Lits, m \in Modes : Call("to", s, <<>>, 0, m, to(cur, s, m))

ExtractFromTo ==
    \E p \in FromTo, m \in Modes :
        Call("extractFromTo", p[1], p[2], 0, m, extractFromTo(cur, p[1], p[2], m))

ExtractTo == \E s \in Lits, m \in Modes : Call("extractTo", s, <<>>, 0, m, extractTo(cur, s, m))

ExtractUntilOneOf ==
    \E s \in CharSets, m \in Modes :
        Call("extractUntilOneOf", s, <<>>, 0, m, extractUntilOneOf(cur, s, m))

ExtractBalanced ==
    \E p \in Brackets, m \in Modes :
        Call("extractBalanced", <<p[1]>>, <<p[2]>>, 0, m, extractBalanced(cur, p[1], p[2], m))

ExtractSize ==
    \E n \in 0 .. MaxCount, m \in Modes :
        Call("extractSize", <<>>, <<>>, n, m, extractSize(cur, n, m))

Skip == \E n \in 0 .. MaxCount : Call("skip", <<>>, <<>>, n, "none", skip(cur, n))

TakeUInt64 == Call("takeUInt64", <<>>, <<>>, 0, "none", takeUInt64(cur))

TakeUInt64Def ==
    \E d \in Defaults : Call("takeUInt64Def", d.digits, <<>>, 0, "none", takeUInt64Def(cur, d))

TakeInt64 == Call("takeInt64", <<>>, <<>>, 0, "none", takeInt64(cur))

TakeInt64Def ==
    \E d \in Defaults : Call("takeInt64Def", d.digits, <<>>, 0, "none", takeInt64Def(cur, d))

SkipWhiteSpaces == Call("skipWhiteSpaces", <<>>, <<>>, 0, "none", skipWhiteSpaces(cur))

GetJsonProp == \E s \in Props : Call("getJsonProp", s, <<>>, 0, "none", getJsonProp(cur, s))

GetXmlTag == \E s \in Props, m \in Modes : Call("getXmlTag", s, <<>>, 0, m, getXmlTag(cur, s, m))

GetXmlTagBody ==
    \E s \in Props, m \in Modes : Call("getXmlTagBody", s, <<>>, 0, m, getXmlTagBody(cur, s, m))

GetXmlAttr == \E s \in Props : Call("getXmlAttr", s, <<>>, 0, "none", getXmlAttr(cur, s))

\* the methods that return a cursor
Extractions ==
    {"extractFromTo", "extractTo", "extractUntilOneOf", "extractBalanced", "extractSize",
     "getJsonProp", "getXmlTag", "getXmlTagBody", "getXmlAttr"}

\* the caller goes on with the cursor the last call returned
Adopt ==
    /\ status = "ok"
    /\ last.op \in Extractions
    /\ cur' = res
    /\ res' = Sentinel
    /\ last' = Idle("adopt")
    /\ UNCHANGED <<buf, status, calls>>

\* the caller goes on with the receiver and drops what the call returned
Discard ==
    /\ status = "ok"
    /\ ~Ready
    /\ Readable(cur)
    /\ res' = Sentinel
    /\ last' = Idle("discard")
    /\ UNCHANGED <<buf, cur, status, calls>>

Next ==
    \/ Expect
    \/ StartsWith
    \/ To
    \/ ExtractFromTo
    \/ ExtractTo
    \/ ExtractUntilOneOf
    \/ ExtractBalanced
    \/ ExtractSize
    \/ Skip
    \/ TakeUInt64
    \/ TakeUInt64Def
    \/ TakeInt64
    \/ TakeInt64Def
    \/ SkipWhiteSpaces
    \/ GetJsonProp
    \/ GetXmlTag
    \/ GetXmlTagBody
    \/ GetXmlAttr
    \/ Adopt
    \/ Discard

Spec == Init /\ [][Next]_vars

----------------------------------------------------------------------------
(* What the properties below are stated with.  They speak of the call that *)
(* last records: of the text in front of the receiver before the call      *)
(* (Before), of the receiver after it (cur) and of what it returned.       *)

Called(op) == status = "ok" /\ last.op = op

Before == Text(last.pre)

\* lit stands in s at the 0-based position i
OccursAt(s, lit, i) ==
    /\ i >= 0
    /\ i + Len(lit) <= Len(s)
    /\ \A k \in 1 .. Len(lit) : s[i + k] = lit[k]

Occurs(s, lit) == \E i \in 0 .. Len(s) : OccursAt(s, lit, i)

\* i is the first position at or after p where lit stands in s
FirstFrom(s, lit, p, i) ==
    /\ i >= p
    /\ OccursAt(s, lit, i)
    /\ \A j \in p .. (i - 1) : ~OccursAt(s, lit, j)

\* the cursor c with its first k characters dropped: same end, same origin
Suffix(c, k) == [data |-> c.data + k, size |-> c.size - k, orig |-> c.orig]

\* the cursor over the characters i .. j-1 of the view of c
Slice(c, i, j) == [data |-> c.data + i, size |-> j - i, orig |-> c.orig]

----------------------------------------------------------------------------
\* C3: expect(s) returns true and moves the view on by exactly |s| characters,
\* keeping its end and its origin, exactly when the view started with s before
\* the call (what startsWith(s) answers); otherwise it returns false and the
\* view is unchanged.  startsWith changes neither the view nor the offset.
C3_ExpectConsumesIffMatches ==
    /\ Called("expect") =>
          /\ last.ok <=> startsWith(last.pre, last.a).ok
          /\ last.ok <=> OccursAt(Before, last.a, 0)
          /\ last.ok => cur = Suffix(last.pre, Len(last.a))
          /\ last.ok => cur.data + cur.size = last.pre.data + last.pre.size
          /\ ~last.ok => cur = last.pre
    /\ Called("startsWith") =>
          /\ last.ok <=> OccursAt(Before, last.a, 0)
          /\ cur = last.pre
          /\ getOffset(cur) = getOffset(last.pre)

C3_Witness ==
    /\ Called("expect")
    /\ last.ok
    /\ Len(last.a) > 1
    /\ cur.size > 0
    /\ last.pre.data > 0

----------------------------------------------------------------------------
\* C4: to(literal, mode) returns true exactly when literal occurs in the view.
\* On true the view is unchanged with mode none, becomes the suffix starting at
\* the first occurrence with move_before and the suffix starting just past the
\* first occurrence with move_after.  On false the view is unchanged.
C4_SeekTo ==
    Called("to") =>
        /\ last.ok <=> Occurs(Before, last.a)
        /\ ~last.ok => cur = last.pre
        /\ last.ok =>
              \E i \in 0 .. Len(Before) :
                  /\ FirstFrom(Before, last.a, 0, i)
                  /\ last.mode = "none" => cur = last.pre
                  /\ last.mode = "move_before" => cur = Suffix(last.pre, i)
                  /\ last.mode = "move_after" => cur = Suffix(last.pre, i + Len(last.a))

C4_Witness ==
    /\ Called("to")
    /\ last.ok
    /\ last.mode = "move_after"
    /\ Len(last.a) > 1
    /\ ~OccursAt(Before, last.a, 0)
    /\ cur.data > last.pre.data + Len(last.a)

----------------------------------------------------------------------------
\* C5: a failing extractFromTo, extractTo, extractUntilOneOf, extractBalanced or
\* getXmlTag, in every mode, returns a cursor whose isEmpty() is true and leaves
\* the receiver's view and offset as they were before the call.
C5_FailureLeavesReceiver ==
    (/\ status = "ok"
     /\ last.op \in {"extractFromTo", "extractTo", "extractUntilOneOf", "extractBalanced",
                     "getXmlTag"}
     /\ ~last.ok) =>
        /\ isEmpty(res)
        /\ cur = last.pre
        /\ getOffset(cur) = getOffset(last.pre)

\* the first delimiter is there and the second is not, and the caller asked
\* for the receiver to be moved
C5_Witness ==
    /\ Called("extractFromTo")
    /\ ~last.ok
    /\ last.mode = "move_after"
    /\ Len(last.a) > 0
    /\ Occurs(Before, last.a)
    /\ last.pre.size > 0

----------------------------------------------------------------------------
\* C6: extractFromTo(from, to, mode) succeeds exactly when from occurs in the
\* view and to occurs at or after the end of the first occurrence of from; the
\* slice is then the text strictly between the end of that first from and the
\* start of the first to found from there ("World" for NameDoc with "<name>" and
\* "</name>").  It fails if either delimiter is absent.
C6_ExtractBetween ==
    Called("extractFromTo") =>
        /\ last.ok <=>
              \E i \in 0 .. Len(Before) :
                  /\ FirstFrom(Before, last.a, 0, i)
                  /\ \E j \in (i + Len(last.a)) .. Len(Before) : OccursAt(Before, last.b, j)
        /\ last.ok =>
              \E i \in 0 .. Len(Before) :
                  /\ FirstFrom(Before, last.a, 0, i)
                  /\ \E j \in (i + Len(last.a)) .. Len(Before) :
                        /\ FirstFrom(Before, last.b, i + Len(last.a), j)
                        /\ res = Slice(last.pre, i + Len(last.a), j)
                        /\ Text(res) = SubSeq(Before, i + Len(last.a) + 1, j)
        /\ (~Occurs(Before, last.a) \/ ~Occurs(Before, last.b)) => ~last.ok /\ res = Sentinel
        /\ (buf = NameDoc /\ last.pre.data = 0 /\ last.pre.size = Len(buf)
              /\ last.a = LitNameOpen /\ last.b = LitNameClose) => Text(res) = LitWorld

C6_Witness ==
    /\ Called("extractFromTo")
    /\ buf = NameDoc
    /\ last.a = LitNameOpen
    /\ last.b = LitNameClose
    /\ last.ok
    /\ Text(res) = LitWorld

----------------------------------------------------------------------------
\* the nesting depth after the characters from .. j of s, where s[from] is an
\* opening character: one more for every opening character, one less for every
\* closing character that is not an opening one as well
NestDepth(s, from, j, open, close) ==
    Cardinality({k \in from .. j : s[k + 1] = open})
        - Cardinality({k \in from .. j : s[k + 1] = close /\ s[k + 1] # open})

\* j is the first position behind from where the depth is back at zero
ClosesAt(s, from, j, open, close) ==
    /\ j > from
    /\ j < Len(s)
    /\ NestDepth(s, from, j, open, close) = 0
    /\ \A k \in (from + 1) .. (j - 1) : NestDepth(s, from, k, open, close) # 0

\* C7: extractBalanced(startChar, endChar, mode) finds the first startChar and
\* counts the depth up on startChar and down on endChar; the slice starts at that
\* first startChar and ends at, and includes, the endChar that first brings the
\* depth back to zero (the outer object of NestDoc, not the inner one).  It fails
\* if startChar is absent or the depth never returns to zero; with move_after the
\* receiver's view starts just past the closing endChar.
C7_ExtractBalanced ==
    Called("extractBalanced") =>
        LET open == last.a[1]
            close == last.b[1]
            firsts == {i \in 0 .. Len(Before) : FirstFrom(Before, <<open>>, 0, i)}
            closes(i) == {j \in 0 .. Len(Before) : ClosesAt(Before, i, j, open, close)}
        IN /\ last.ok <=> \E i \in firsts : closes(i) # {}
           /\ ~last.ok => res = Sentinel
           /\ \A i \in firsts :
                 \A j \in closes(i) :
                     /\ res = Slice(last.pre, i, j + 1)
                     /\ Text(res)[1] = open
                     /\ Text(res)[Len(Text(res))] = close
                     /\ last.mode = "move_after" => cur = Suffix(last.pre, j + 1)
           /\ (buf = NestDoc /\ last.pre.data = 0 /\ last.pre.size = Len(buf)
                 /\ open = "{" /\ close = "}") => Text(res) = NestDoc

C7_Witness ==
    /\ Called("extractBalanced")
    /\ buf = NestDoc
    /\ last.pre.data = 0
    /\ last.a = <<"{">>
    /\ last.b = <<"}">>
    /\ last.mode = "move_after"
    /\ last.ok
    /\ Text(res) = NestDoc
    /\ cur.size = 0

----------------------------------------------------------------------------
\* q is where the white space that starts at p ends
SpaceEnds(s, p, q) ==
    /\ q >= p
    /\ q <= Len(s)
    /\ \A k \in p .. (q - 1) : s[k + 1] \in IsSpace
    /\ q < Len(s) => s[q + 1] \notin IsSpace

\* v is the start of the value of the property: behind the first occurrence of
\* the quoted name, white space, a colon and white space
ValueAt(s, name, v) ==
    \E i \in 0 .. Len(s) :
        /\ FirstFrom(s, DOUBLE_QUOTE \o name \o DOUBLE_QUOTE, 0, i)
        /\ \E q \in (i + Len(name) + 2) .. (Len(s) - 1) :
              /\ s[q + 1] = ":"
              /\ SpaceEnds(s, i + Len(name) + 2, q)
              /\ SpaceEnds(s, q + 1, v)

JsonEnders == {",", " ", "\r", "\n", "]", "}"}

\* C9: getJsonProp(name) never changes the receiver's view.  It returns the
\* value behind the first occurrence of the quoted name, optional white space, a
\* required ':' and optional white space: the text up to the next double quote
\* for a quoted string, the whole balanced [...] or {...} span for an array or an
\* object, and otherwise the text up to the first of ',', space, CR, LF, ']' and
\* '}'.  It returns the empty sentinel if the quoted name or the ':' is missing.
\* For JsonDoc: name -> John, age -> 30, array -> [1,2,3], obj -> {"nested": "value"}.
C9_GetJsonProp ==
    Called("getJsonProp") =>
        LET s == Before
            starts == {v \in 0 .. Len(s) : ValueAt(s, last.a, v)}
            first(v) == IF v < Len(s) THEN s[v + 1] ELSE NUL
            whole == buf = JsonDoc /\ last.pre.data = 0 /\ last.pre.size = Len(buf)
        IN /\ cur = last.pre
           /\ starts = {} => ~last.ok /\ res = Sentinel
           /\ \A v \in starts :
                 /\ first(v) = "\"" =>
                       \A j \in 0 .. Len(s) :
                           FirstFrom(s, DOUBLE_QUOTE, v + 1, j) =>
                               last.ok /\ res = Slice(last.pre, v + 1, j)
                 /\ first(v) \in {"[", "{"} =>
                       \A j \in 0 .. Len(s) :
                           ClosesAt(s, v, j, first(v), IF first(v) = "[" THEN "]" ELSE "}") =>
                               last.ok /\ res = Slice(last.pre, v, j + 1)
                 /\ first(v) \notin {"\"", "[", "{"} =>
                       \A j \in v .. (Len(s) - 1) :
                           (s[j + 1] \in JsonEnders
                              /\ \A k \in v .. (j - 1) : s[k + 1] \notin JsonEnders) =>
                               last.ok /\ res = Slice(last.pre, v, j)
           /\ (whole /\ last.a = <<"n", "a", "m", "e">>) => Text(res) = <<"J", "o", "h", "n">>
           /\ (whole /\ last.a = <<"a", "g", "e">>) => Text(res) = <<"3", "0">>
           /\ (whole /\ last.a = <<"a", "r", "r", "a", "y">>) =>
                 Text(res) = <<"[", "1", ",", "2", ",", "3", "]">>
           /\ (whole /\ last.a = <<"o", "b", "j">>) =>
                 Text(res) = <<"{", "\"", "n", "e", "s", "t", "e", "d", "\"", ":", " ",
                               "\"", "v", "a", "l", "u", "e", "\"", "}">>

C9_Witness ==
    /\ Called("getJsonProp")
    /\ buf = JsonDoc
    /\ last.pre.data = 0
    /\ last.a = <<"o", "b", "j">>
    /\ last.ok
    /\ Len(Text(res)) = 19
    /\ Text(res)[1] = "{"

----------------------------------------------------------------------------
\* the tag of name in s: from the first "<name" at i through the nearest
\* "</name>" that starts at e, behind the "<name"
OpenTag(name) == <<"<">> \o name

CloseTag(name) == <<"<", "/">> \o name \o <<">">>

TagSpans(s, name) ==
    UNION {{<<i, e>> : e \in {e \in (i + Len(OpenTag(name))) .. Len(s) :
                                  FirstFrom(s, CloseTag(name), i + Len(OpenTag(name)), e)}} :
           i \in {i \in 0 .. Len(s) : FirstFrom(s, OpenTag(name), 0, i)}}

TagText(s, name, x) == SubSeq(s, x[1] + 1, x[2] + Len(CloseTag(name)))

\* g is the position of the first '>' of the tag text tg, l the position of
\* the last "</name>" in it
FirstGt(tg, g) == FirstFrom(tg, <<">">>, 0, g)

LastClose(tg, name, l) ==
    /\ OccursAt(tg, CloseTag(name), l)
    /\ \A k \in (l + 1) .. Len(tg) : ~OccursAt(tg, CloseTag(name), k)

\* what C10 says of getXmlTag
TagIsSpan ==
    Called("getXmlTag") =>
        /\ last.ok <=> TagSpans(Before, last.a) # {}
        /\ ~last.ok => res = Sentinel
        /\ (~Occurs(Before, OpenTag(last.a)) \/ ~Occurs(Before, CloseTag(last.a))) => ~last.ok
        /\ \A x \in TagSpans(Before, last.a) :
              /\ res = Slice(last.pre, x[1], x[2] + Len(CloseTag(last.a)))
              /\ Text(res) = TagText(Before, last.a, x)
        /\ (buf = XmlDoc /\ last.pre.data = 0 /\ last.pre.size = Len(buf)
              /\ last.a = <<"n", "a", "m", "e">>) =>
                 Text(res) = LitNameOpen \o <<"J", "o", "h", "n">> \o LitNameClose

\* what C10 says of the text getXmlTagBody returns: of every tag, or only of
\* the tags whose first '>' stands before the closing tag
BodyIsInside(closedOnly) ==
    Called("getXmlTagBody") =>
        /\ last.ok <=> TagSpans(Before, last.a) # {}
        /\ \A x \in TagSpans(Before, last.a) :
              LET tg == TagText(Before, last.a, x)
              IN \A g, l \in 0 .. Len(tg) :
                    (FirstGt(tg, g) /\ LastClose(tg, last.a, l) /\ (closedOnly => g < l)) =>
                        /\ Text(res) = SubSeq(tg, g + 2, l)
                        /\ tg = SubSeq(tg, 1, g + 1) \o Text(res) \o CloseTag(last.a)
        /\ (buf = XmlDoc /\ last.pre.data = 0 /\ last.pre.size = Len(buf)
              /\ last.a = <<"n", "a", "m", "e">>) => Text(res) = <<"J", "o", "h", "n">>

\* C10 as stated: getXmlTag(name, mode) returns the span from the first "<name"
\* through the end of the nearest "</name>" behind it and fails if either is
\* absent; getXmlTagBody(name, mode) returns the text of that span strictly
\* between its first '>' and its last "</name>", so that whenever getXmlTag
\* succeeds the span is the opening tag through its first '>', then the body,
\* then "</name>".
C10_TagAndBody_AsStated == TagIsSpan /\ BodyIsInside(FALSE)

\* C10 as amended: the same, where the first '>' of the span stands before its
\* closing "</name>"; where the span has no '>' before its closing tag, the
\* body is empty.
C10_TagAndBody ==
    /\ TagIsSpan
    /\ BodyIsInside(TRUE)
    /\ Called("getXmlTagBody") =>
          \A x \in TagSpans(Before, last.a) :
              LET tg == TagText(Before, last.a, x)
              IN \A g, l \in 0 .. Len(tg) :
                    (FirstGt(tg, g) /\ LastClose(tg, last.a, l) /\ g >= l) =>
                        last.ok /\ Text(res) = <<>>

\* an opening tag with an attribute, and a second closing tag behind the tag
C10_Witness ==
    /\ Called("getXmlTagBody")
    /\ buf = TwoCloseDoc
    /\ last.pre.data = 0
    /\ last.a = <<"n">>
    /\ last.ok
    /\ Text(res) = <<"x">>

----------------------------------------------------------------------------
InBuffer(c) == c.data >= 0 /\ c.size >= 0 /\ c.data + c.size <= Len(buf)

\* C1: after any sequence of calls on a root cursor over a buffer of length L,
\* and on any cursor derived from it that is not the sentinel, the view of the
\* cursor is a sub-range of the buffer: it starts at or behind the origin and
\* ends at or before origin + L.  This is so of skip(n) and
\* extractSize(n, move_after) for every n, and of the integer parsers.
C1_ViewInsideBuffer ==
    status = "ok" =>
        /\ cur.data # EMPTY_STR => InBuffer(cur)
        /\ res.data # EMPTY_STR => InBuffer(res)

----------------------------------------------------------------------------
\* C2: the root after any calls, and every cursor a successful extraction
\* returns, has the root's origin, so getOffset() and getOriginalPosition() are
\* equal and are the index in the root buffer of the first character of the
\* view.
C2_OffsetIsIndexInRoot ==
    status = "ok" =>
        \A c \in {cur} \cup (IF last.op \in Extractions /\ last.ok THEN {res} ELSE {}) :
            c.data # EMPTY_STR =>
                /\ c.orig = 0
                /\ getOffset(c) = getOriginalPosition(c)
                /\ getOffset(c) = c.data

----------------------------------------------------------------------------
\* the characters of the view that a base-10 conversion consumes: white space,
\* an optional sign and the longest run of decimal digits behind them
LeadingRun(s, S, p) ==
    Max({k \in 0 .. (Len(s) - p) : \A i \in 1 .. k : s[p + i] \in S})

Consumed(s) ==
    LET sp == LeadingRun(s, IsSpace, 0)
        sg == IF sp < Len(s) /\ s[sp + 1] \in {"+", "-"} THEN 1 ELSE 0
        k == LeadingRun(s, IsDigit, sp + sg)
    IN [neg |-> sg = 1 /\ s[sp + 1] = "-", k |-> k, n |-> sp + sg + k,
        digits |-> StripZeros(SubSeq(s, sp + sg + 1, sp + sg + k))]

\* C8: takeUInt64() converts the longest leading run of decimal digits of the
\* view (behind the white space and the sign the conversion accepts).  With at
\* least one digit and a value that fits 64 bits it returns the value and moves
\* the view past exactly the consumed characters.  It returns no value exactly
\* when there is no digit (the view is then not moved) or the value does not fit
\* (the view is then moved past the consumed digits).  takeUInt64(def) returns
\* def in exactly the no-value cases and moves the view in the same way.
C8_TakeUnsigned ==
    (status = "ok" /\ last.op \in {"takeUInt64", "takeUInt64Def"}) =>
        LET c == Consumed(Before)
            fits == ~DecLess(ULLONG_MAX, c.digits)
            none == IF last.op = "takeUInt64" THEN NoValue ELSE Value(FALSE, last.a)
        IN /\ (c.k >= 1 /\ fits) => last.val = Value(c.neg, c.digits)
           /\ (c.k = 0 \/ ~fits) => last.val = none
           /\ last.op = "takeUInt64" => (~last.val.has <=> (c.k = 0 \/ ~fits))
           /\ c.k = 0 => cur = last.pre
           /\ c.k >= 1 => cur = Suffix(last.pre, c.n)

====
